---- MODULE Spec2Model ----
(***************************************************************************)
(* Model of the eKuiper runtime core:                                      *)
(*   - infra.SafeRun / infra.DrainError        (package infra)             *)
(*   - node.SinkNode: newSinkNode, SetResendOutput, Exec, ingest           *)
(*   - function.registerAnalyticFunc: changed_col, had_changed, lag,       *)
(*     latest, over the per-key state store of the function context        *)
(* Go channels are modelled with their buffer, their capacity, whether a   *)
(* receiver is blocked on them, and the values the receiver has got.       *)
(* A Go select is modelled by the set of branches it may take.             *)
(***************************************************************************)
EXTENDS Integers, Sequences, FiniteSets, TLC

VARIABLES
    pc,             \* position of the sink task goroutine
    ctxDone,        \* ctx.Done() is closed (the rule was cancelled)
    resendInterval, \* s.resendInterval (milliseconds)
    sendError,      \* s.sendError
    eoflimit,       \* s.eoflimit
    currentEof,     \* s.currentEof
    resendOut,      \* s.resendOut: [set |-> FALSE] is nil, else the channel
    input,          \* s.input, the buffered input channel
    produced,       \* number of items upstream has put on s.input
    eofTaken,       \* EOF markers ingest has counted
    data,           \* the record being collected (local `data`)
    err,            \* the task's local `err`
    ncollects,      \* number of doCollect calls so far
    lastCollect,    \* the latest doCollect call: [id, res, retry, afterCancel]
    retries,        \* ticker ticks taken for the current record
    reports,        \* kinds of s.onError calls made for the latest record
    deferred,       \* the cleanup defer of Exec is registered
    sinkClosed,     \* number of s.sink.Close calls
    nodeClosed,     \* number of s.Close calls
    panicVal,       \* the panic unwinding the task, if any
    exitVia,        \* how the task body left its loop
    cancelInRetry,  \* cancellation fired while the task was in the retry loop
    errCh,          \* the rule's error channel
    drainCalls,     \* every DrainError call: [err, room, sent]
    drainLog,       \* errors DrainError has logged
    safeRuns,       \* SafeRun calls made on their own: [ret, panic, res]
    state,          \* the state store of the function context: key -> value
    call,           \* the latest analytic call: [fn, args, res, emit, panicked, before]
    ncalls,         \* number of analytic calls so far
    advanced        \* per key, the values of the lag calls that advanced its buffer

vars == <<pc, ctxDone, resendInterval, sendError, eoflimit, currentEof, resendOut,
          input, produced, eofTaken, data, err, ncollects, lastCollect, retries, reports,
          deferred, sinkClosed, nodeClosed, panicVal, exitVia, cancelInRetry,
          errCh, drainCalls, drainLog, safeRuns, state, call, ncalls, advanced>>

confVars == <<resendInterval, sendError, eoflimit>>
errVars == <<errCh, drainCalls, drainLog>>
fnVars == <<state, call, ncalls, advanced>>
libVars == <<safeRuns, fnVars>>

sinkVars == <<pc, ctxDone, resendInterval, sendError, eoflimit, currentEof, resendOut,
              input, produced, eofTaken, data, err, ncollects, lastCollect, retries, reports,
              deferred, sinkClosed, nodeClosed, panicVal, exitVia, cancelInRetry>>

(***************************************************************************)
(* Bounds of the model                                                     *)
(***************************************************************************)
MaxRecords == 2      \* items upstream produces
MaxRetries == 2      \* ticker ticks per record
MaxEofLimit == 2     \* largest configured eoflimit
MaxErrChCap == 1     \* largest capacity of the error channel
MaxReceived == 2     \* values the supervisor takes from the error channel
MaxDrainCalls == 3   \* DrainError calls by the rule's other goroutines
MaxSafeRunCalls == 3 \* SafeRun calls made on their own
MaxCalls == 3        \* calls of changed_col, of lag, of latest
MaxHadChangedCalls == 2 \* calls of had_changed
BufferLength == 2    \* capacity of s.input
ResendCap == 1       \* capacity of the resend channel

DefaultRetry == 100  \* default retry interval, milliseconds

(***************************************************************************)
(* Values                                                                  *)
(***************************************************************************)
\* error values: id is the identity of the error object, msg its message
NilErr == [id |-> "nil", msg |-> ""]
ConnectErr == [id |-> "connect", msg |-> "connect failed"]
IOErr == [id |-> "io", msg |-> "io error"]
NonIOErr == [id |-> "nonio", msg |-> "bad data"]
EOFErr == [id |-> "eof", msg |-> "done"]
OtherErr1 == [id |-> "e1", msg |-> "first"]
OtherErr2 == [id |-> "e2", msg |-> "second"]
PanicErr == [id |-> "perr", msg |-> "nil pointer dereference"]

\* panic payloads: a string, an error, anything else
NoPanic == [type |-> "none", str |-> "", err |-> NilErr, num |-> 0]
PanicPayloads ==
    { [type |-> "string", str |-> "boom", err |-> NilErr, num |-> 0],
      [type |-> "error", str |-> "", err |-> PanicErr, num |-> 0],
      [type |-> "other", str |-> "", err |-> NilErr, num |-> 42] }

\* what s.sink.Close panics with, when it panics
ClosePanics == { [type |-> "error", str |-> "", err |-> PanicErr, num |-> 0] }

ItemKinds == {"data", "error", "watermark", "batcheof", "eof"}
NoItem == [id |-> 0, kind |-> "none"]
NoCollect == [id |-> 0, res |-> "none", retry |-> FALSE, afterCancel |-> FALSE]

\* interface{} values of the analytic functions: t is the dynamic type, n the
\* number held (a bool as 0 or 1; a ringqueue holds its capacity), s the
\* string held (an error holds its message), q the slots of a ringqueue,
\* oldest first
Nil == [t |-> "nil", n |-> 0, s |-> "", q |-> <<>>]
IntVal(i) == [t |-> "int", n |-> i, s |-> "", q |-> <<>>]
BoolVal(b) == [t |-> "bool", n |-> IF b THEN 1 ELSE 0, s |-> "", q |-> <<>>]
StrVal(x) == [t |-> "string", n |-> 0, s |-> x, q |-> <<>>]
ErrVal(m) == [t |-> "error", n |-> 0, s |-> m, q |-> <<>>]

\* the state store before any PutState
NoState == [k \in {} |-> Nil]
NoCall == [fn |-> "none", args |-> <<>>, res |-> Nil, emit |-> FALSE,
           panicked |-> FALSE, before |-> NoState]

NilChan == [set |-> FALSE, cap |-> 0, buf |-> <<>>, recv |-> FALSE, out |-> <<>>]
MakeChan(c) == [set |-> TRUE, cap |-> c, buf |-> <<>>, recv |-> FALSE, out |-> <<>>]

(***************************************************************************)
(* Go channels and select                                                  *)
(***************************************************************************)
\* a send can proceed at once: a receiver is blocked, or the buffer has room
ChanCanSend(ch) == ch.set /\ (ch.recv \/ Len(ch.buf) < ch.cap)

ChanSend(ch, v) ==
    IF ch.recv THEN [ch EXCEPT !.recv = FALSE, !.out = Append(@, v)]
    ELSE [ch EXCEPT !.buf = Append(@, v)]

\* the receiver starts a receive: it takes the head of the buffer, or blocks
ChanRecv(ch) ==
    IF ch.buf # <<>> THEN [ch EXCEPT !.buf = Tail(@), !.out = Append(@, Head(ch.buf))]
    ELSE [ch EXCEPT !.recv = TRUE]

\* the branches a select may take: any ready case; default only when none is
\* ready; none at all (the goroutine blocks) without a default
Select(ready, hasDefault) ==
    IF ready # {} THEN ready ELSE IF hasDefault THEN {"default"} ELSE {}

(***************************************************************************)
(* package infra                                                           *)
(***************************************************************************)
\* a DrainError whose select has no default: it waits for the send
DrainErrorSelectBlocking(ch) ==
    Select(IF ChanCanSend(ch) THEN {"send"} ELSE {}, FALSE)

\* the select of DrainError: one send case and a default
DrainErrorSelect(ch) ==
    Select(IF ChanCanSend(ch) THEN {"send"} ELSE {}, TRUE)

\* DrainError(ctx, err, errCh): logs a non-nil err, then tries one send of err.
\* The set of results the call can end with; an empty set is a blocked caller.
DrainError(e, ch) ==
    { [ch   |-> IF c = "send" THEN ChanSend(ch, e) ELSE ch,
       log  |-> IF e # NilErr THEN <<e>> ELSE <<>>,
       call |-> [err |-> e, room |-> ChanCanSend(ch), sent |-> (c = "send")]]
      : c \in DrainErrorSelect(ch) }

\* fmt.Errorf("%#v", x) for a payload that is neither a string nor an error
FormatOther(p) == [id |-> "formatted", msg |-> ToString(p.num)]

\* a recover() branch that formats every payload that is not a string
RecoverFormatErrors(p) ==
    CASE p.type = "string" -> [id |-> "errors.New", msg |-> p.str]
      [] OTHER -> FormatOther(p)

\* the recover() branch of SafeRun: the error made from a panic payload
Recover(p) ==
    CASE p.type = "string" -> [id |-> "errors.New", msg |-> p.str]
      [] p.type = "error" -> p.err
      [] OTHER -> FormatOther(p)

\* a SafeRun without its deferred recover
SafeRunNoRecover(ret, p) == [escaped |-> (p # NoPanic), err |-> ret]

\* SafeRun(fn): fn returned ret, or panicked with payload p (p # NoPanic).
\* escaped tells whether the panic leaves SafeRun.
SafeRun(ret, p) ==
    IF p # NoPanic THEN [escaped |-> FALSE, err |-> Recover(p)]
    ELSE [escaped |-> FALSE, err |-> ret]

\* errorx.IsIOError
IsIOError(e) == e.id = "io"

(***************************************************************************)
(* SinkNode construction                                                   *)
(***************************************************************************)
\* newSinkNode: the retry interval chosen from the sink configuration
newSinkNode(confInterval, enableCache, isRetry) ==
    IF (enableCache \/ isRetry) /\ confInterval <= 0 THEN DefaultRetry
    ELSE confInterval

\* prepareExec keeps the rule's error channel as the node's control channel
ctrlCh == errCh

Init ==
    /\ pc = "created"
    /\ ctxDone = FALSE
    /\ resendInterval \in { newSinkNode(0, ec, FALSE) : ec \in BOOLEAN }
    /\ sendError \in BOOLEAN
    /\ eoflimit \in {1, MaxEofLimit}
    /\ currentEof = 0
    /\ resendOut = NilChan
    /\ input = <<>>
    /\ produced = 0
    /\ eofTaken = 0
    /\ data = NoItem
    /\ err = NilErr
    /\ ncollects = 0
    /\ lastCollect = NoCollect
    /\ retries = 0
    /\ reports = {}
    /\ deferred = FALSE
    /\ sinkClosed = 0
    /\ nodeClosed = 0
    /\ panicVal = NoPanic
    /\ exitVia = "none"
    /\ cancelInRetry = FALSE
    /\ errCh \in { MakeChan(c) : c \in {0, MaxErrChCap} }
    /\ drainCalls = <<>>
    /\ drainLog = <<>>
    /\ safeRuns = <<>>
    /\ state = NoState
    /\ call = NoCall
    /\ ncalls = 0
    /\ advanced = NoState

\* the effect of one DrainError(ctx, e, ch) call, ch being the rule's error
\* channel under one of its names
DrainOn(ch, e) ==
    \E r \in DrainError(e, ch) :
        /\ errCh' = r.ch
        /\ drainLog' = drainLog \o r.log
        /\ drainCalls' = Append(drainCalls, r.call)

\* infra.DrainError(ctx, e, errCh)
Drain(e) == DrainOn(errCh, e)

NoDrain == UNCHANGED <<errCh, drainCalls, drainLog>>

(***************************************************************************)
(* SinkNode.ingest                                                         *)
(***************************************************************************)
\* defaultSinkNode.preprocess: hands the item on
preprocess(item) == [item |-> item, processed |-> FALSE]

\* an ingest that compares the limit with the counter before counting the marker
ingestCompareFirst(item, se, ce, lim) ==
    IF item.kind = "error"
    THEN IF se
         THEN [data |-> item, processed |-> FALSE, currentEof |-> ce, raise |-> FALSE]
         ELSE [data |-> NoItem, processed |-> TRUE, currentEof |-> ce, raise |-> FALSE]
    ELSE IF item.kind \in {"watermark", "batcheof"}
    THEN [data |-> NoItem, processed |-> TRUE, currentEof |-> ce, raise |-> FALSE]
    ELSE IF item.kind = "eof"
    THEN [data |-> NoItem, processed |-> TRUE, currentEof |-> ce + 1, raise |-> (lim = ce)]
    ELSE [data |-> item, processed |-> FALSE, currentEof |-> ce, raise |-> FALSE]

\* an ingest that lets watermarks and batch-EOF markers through
ingestForwardsMarkers(item, se, ce, lim) ==
    IF item.kind = "error" /\ ~se
    THEN [data |-> NoItem, processed |-> TRUE, currentEof |-> ce, raise |-> FALSE]
    ELSE IF item.kind = "eof"
    THEN [data |-> NoItem, processed |-> TRUE, currentEof |-> ce + 1,
          raise |-> (lim = ce + 1)]
    ELSE [data |-> item, processed |-> FALSE, currentEof |-> ce, raise |-> FALSE]

\* ingest(ctx, item) with s.sendError = se, s.currentEof = ce, s.eoflimit = lim:
\* the (data, processed) it returns, the new s.currentEof, and whether it
\* calls DrainError with the EOF error
ingest(item, se, ce, lim) ==
    LET pre == preprocess(item) IN
    IF pre.processed
    THEN [data |-> pre.item, processed |-> TRUE, currentEof |-> ce, raise |-> FALSE]
    ELSE CASE pre.item.kind = "error" ->
                IF se
                THEN [data |-> pre.item, processed |-> FALSE, currentEof |-> ce, raise |-> FALSE]
                ELSE [data |-> NoItem, processed |-> TRUE, currentEof |-> ce, raise |-> FALSE]
           [] pre.item.kind \in {"watermark", "batcheof"} ->
                [data |-> NoItem, processed |-> TRUE, currentEof |-> ce, raise |-> FALSE]
           [] pre.item.kind = "eof" ->
                [data |-> NoItem, processed |-> TRUE, currentEof |-> ce + 1,
                 raise |-> (lim = ce + 1)]
           [] OTHER ->
                [data |-> pre.item, processed |-> FALSE, currentEof |-> ce, raise |-> FALSE]

(***************************************************************************)
(* The environment of the sink node                                        *)
(***************************************************************************)
\* Upstream puts the next item on s.input. The task looks at s.input only in
\* its main select, so upstream is scheduled while the task waits there: an
\* item put on the channel earlier is seen by the task at the same point.
Produce ==
    /\ pc = "idle"
    /\ produced < MaxRecords
    /\ Len(input) < BufferLength
    /\ \E k \in ItemKinds :
          input' = Append(input, [id |-> produced + 1, kind |-> k])
    /\ produced' = produced + 1
    /\ UNCHANGED libVars
    /\ UNCHANGED <<confVars, errVars, pc, ctxDone, currentEof, resendOut, eofTaken,
                   data, err, ncollects, lastCollect, retries, reports, deferred,
                   sinkClosed, nodeClosed, panicVal, exitVia, cancelInRetry>>

\* The rule is stopped: ctx.Done() is closed. The task looks at ctx.Done()
\* only in its selects, so the stop is scheduled while the task is in its main
\* select (which covers the resend select of the record taken next) or in
\* the retry loop.
Cancel ==
    /\ pc \in {"idle", "retrying"}
    /\ ~ctxDone
    /\ ctxDone' = TRUE
    /\ cancelInRetry' = (pc = "retrying")
    /\ UNCHANGED libVars
    /\ UNCHANGED <<confVars, errVars, pc, currentEof, resendOut, input, produced,
                   eofTaken, data, err, ncollects, lastCollect, retries, reports,
                   deferred, sinkClosed, nodeClosed, panicVal, exitVia>>

\* The rule's supervisor receives from the error channel (or blocks in the
\* receive). The task touches the channel when it connects, ingests and exits.
SupervisorRecv ==
    /\ pc \in {"connecting", "idle", "done"}
    /\ ~errCh.recv
    /\ Len(errCh.out) < MaxReceived
    /\ errCh' = ChanRecv(errCh)
    /\ UNCHANGED libVars
    /\ UNCHANGED <<sinkVars, drainCalls, drainLog>>

\* the resend sink receives from the resend channel (or blocks in the
\* receive); the task touches that channel after a failed collect
ResendRecv ==
    /\ pc = "collecting"
    /\ resendOut.set
    /\ ~resendOut.recv
    /\ resendOut' = ChanRecv(resendOut)
    /\ UNCHANGED libVars
    /\ UNCHANGED <<confVars, errVars, pc, ctxDone, currentEof, input, produced,
                   eofTaken, data, err, ncollects, lastCollect, retries, reports,
                   deferred, sinkClosed, nodeClosed, panicVal, exitVia,
                   cancelInRetry>>

(***************************************************************************)
(* SinkNode.SetResendOutput and SinkNode.Exec                              *)
(***************************************************************************)
SetResendOutput ==
    /\ pc = "created"
    /\ ~resendOut.set
    /\ resendOut' = MakeChan(ResendCap)
    /\ UNCHANGED libVars
    /\ UNCHANGED <<confVars, errVars, pc, ctxDone, currentEof, input, produced,
                   eofTaken, data, err, ncollects, lastCollect, retries, reports,
                   deferred, sinkClosed, nodeClosed, panicVal, exitVia,
                   cancelInRetry>>

\* Exec: prepareExec, then the task goroutine is started
Exec ==
    /\ pc = "created"
    /\ pc' = "connecting"
    /\ UNCHANGED libVars
    /\ UNCHANGED <<confVars, errVars, ctxDone, currentEof, resendOut, input,
                   produced, eofTaken, data, err, ncollects, lastCollect, retries,
                   reports, deferred, sinkClosed, nodeClosed, panicVal, exitVia,
                   cancelInRetry>>

\* The task body returns (inflight = NoPanic) or panics with inflight. Its
\* deferred calls run: the cleanup defer, when registered, calls s.sink.Close
\* and then s.Close; a panic of s.sink.Close replaces the panic in flight and
\* skips s.Close. Then SafeRun returns to the goroutine, which drains a
\* non-nil error, and the goroutine ends (its locals are gone).
TaskExit(inflight, via) ==
    /\ exitVia' = via
    /\ \E cp \in IF deferred THEN {NoPanic} \cup ClosePanics ELSE {NoPanic} :
          LET final == IF cp # NoPanic THEN cp ELSE inflight
              r == SafeRun(NilErr, final)
          IN /\ panicVal' = final
             /\ sinkClosed' = IF deferred THEN sinkClosed + 1 ELSE sinkClosed
             /\ nodeClosed' = IF deferred /\ cp = NoPanic
                              THEN nodeClosed + 1 ELSE nodeClosed
             /\ IF r.escaped
                THEN /\ pc' = "crashed"
                     /\ NoDrain
                ELSE /\ pc' = "done"
                     /\ IF r.err # NilErr THEN Drain(r.err) ELSE NoDrain
    /\ data' = NoItem
    /\ err' = NilErr
    /\ retries' = 0

\* s.sink.Connect, the drain of its error, the cleanup defer, s.currentEof = 0
Connect ==
    /\ pc = "connecting"
    /\ \/ \E p \in PanicPayloads :
             /\ TaskExit(p, "panic")
             /\ UNCHANGED <<deferred, currentEof>>
       \/ \E e \in {NilErr, ConnectErr} :
             /\ err' = e
             /\ IF e # NilErr THEN Drain(e) ELSE NoDrain
             /\ deferred' = TRUE
             /\ currentEof' = 0
             /\ pc' = "idle"
             /\ UNCHANGED <<panicVal, exitVia, data, retries, sinkClosed, nodeClosed>>
    /\ UNCHANGED libVars
    /\ UNCHANGED <<confVars, ctxDone, resendOut, input, produced, eofTaken,
                   ncollects, lastCollect, reports, cancelInRetry>>

\* the main select takes the ctx.Done() case: return nil
IdleCancel ==
    /\ pc = "idle"
    /\ ctxDone
    /\ TaskExit(NoPanic, "idle-cancel")
    /\ UNCHANGED libVars
    /\ UNCHANGED <<confVars, ctxDone, currentEof, resendOut, input, produced,
                   eofTaken, ncollects, lastCollect, reports, deferred,
                   cancelInRetry>>

\* a receive that takes the newest item of the channel instead of the oldest
InputRecvNewest(in) == [item |-> in[Len(in)], rest |-> SubSeq(in, 1, Len(in) - 1)]

\* d := <-s.input: the item received and what stays in the channel
InputRecv(in) == [item |-> Head(in), rest |-> Tail(in)]

\* the main select takes the input case: d := <-s.input, then ingest
Receive ==
    /\ pc = "idle"
    /\ input # <<>>
    /\ LET d == InputRecv(input).item
           r == ingest(d, sendError, currentEof, eoflimit)
       IN /\ input' = InputRecv(input).rest
          /\ \/ \E p \in PanicPayloads :
                   /\ TaskExit(p, "panic")
                   /\ UNCHANGED <<currentEof, eofTaken, reports>>
             \/ /\ currentEof' = r.currentEof
                /\ eofTaken' = IF d.kind = "eof" THEN eofTaken + 1 ELSE eofTaken
                /\ IF r.raise THEN DrainOn(ctrlCh, EOFErr) ELSE NoDrain
                /\ IF r.processed
                   THEN /\ pc' = "idle"
                        /\ UNCHANGED <<data, reports>>
                   ELSE /\ pc' = "collecting"
                        /\ data' = r.data
                        /\ reports' = {}
                /\ UNCHANGED <<panicVal, exitVia, err, retries, sinkClosed, nodeClosed>>
    /\ UNCHANGED libVars
    /\ UNCHANGED <<confVars, ctxDone, resendOut, produced, ncollects,
                   lastCollect, deferred, cancelInRetry>>

\* what the sink may answer to a doCollect call that returns
CollectResults == {NilErr, IOErr, NonIOErr}

\* a resend select without its default case
ResendSelectBlocking(ch, done) ==
    Select((IF ChanCanSend(ch) THEN {"send"} ELSE {})
             \cup (IF done THEN {"done"} ELSE {}), FALSE)

\* the select offering a failed record to the resend channel:
\* case s.resendOut <- val, case <-ctx.Done(), default
ResendSelect(ch, done) ==
    Select((IF ChanCanSend(ch) THEN {"send"} ELSE {})
             \cup (IF done THEN {"done"} ELSE {}), TRUE)

\* the retry branch is entered: s.resendInterval > 0 and the error is I/O-class
RetryEligible(interval, e) == interval > 0 /\ IsIOError(e)

\* a retry loop that goes on after any error
RetryLoopCondAnyError(e) == e # NilErr

\* the condition of the retry loop
RetryLoopCond(e) == e # NilErr /\ IsIOError(e)

\* a failure branch that ends the task on a failure that is not retried
CollectFailedStops(e) ==
    IF resendOut.set
    THEN \E c \in ResendSelect(resendOut, ctxDone) :
            /\ resendOut' = IF c = "send" THEN ChanSend(resendOut, data.id) ELSE resendOut
            /\ reports' = IF c = "default" THEN {"collect", "bufferfull"} ELSE {"collect"}
            /\ pc' = "idle"
            /\ UNCHANGED retries
    ELSE /\ reports' = {"collect"}
         /\ UNCHANGED resendOut
         /\ IF RetryEligible(resendInterval, e)
            THEN /\ pc' = "retrying"
                 /\ retries' = 0
            ELSE /\ pc' = "done"
                 /\ UNCHANGED retries

\* the failure branch of the main loop, after doCollect returned e # nil
CollectFailed(e) ==
    IF resendOut.set
    THEN \E c \in ResendSelect(resendOut, ctxDone) :
            /\ resendOut' = IF c = "send" THEN ChanSend(resendOut, data.id) ELSE resendOut
            /\ reports' = IF c = "default" THEN {"collect", "bufferfull"} ELSE {"collect"}
            /\ pc' = "idle"
            /\ UNCHANGED retries
    ELSE /\ reports' = {"collect"}
         /\ UNCHANGED resendOut
         /\ IF RetryEligible(resendInterval, e)
            THEN /\ pc' = "retrying"
                 /\ retries' = 0
            ELSE /\ pc' = "idle"
                 /\ UNCHANGED retries

\* onProcessStart, the first doCollect of a record, and what follows it
Collect ==
    /\ pc = "collecting"
    /\ ncollects' = ncollects + 1
    /\ \/ \E p \in PanicPayloads :
             /\ TaskExit(p, "panic")
             /\ lastCollect' = [id |-> data.id, res |-> "panic",
                                retry |-> FALSE, afterCancel |-> ctxDone]
             /\ UNCHANGED <<resendOut, reports>>
       \/ \E e \in CollectResults :
             /\ err' = e
             /\ lastCollect' = [id |-> data.id, res |-> e.id,
                                retry |-> FALSE, afterCancel |-> ctxDone]
             /\ IF e # NilErr
                THEN CollectFailed(e)
                ELSE /\ pc' = "idle"
                     /\ UNCHANGED <<resendOut, reports, retries>>
             /\ data' = IF pc' = "idle" THEN NoItem ELSE data
             /\ UNCHANGED <<errVars, panicVal, exitVia, sinkClosed, nodeClosed>>
    /\ UNCHANGED libVars
    /\ UNCHANGED <<confVars, ctxDone, currentEof, input, produced,
                   eofTaken, deferred, cancelInRetry>>

\* the retry select takes the ticker case: doCollect again, then the loop test
RetryTick ==
    /\ pc = "retrying"
    /\ retries < MaxRetries
    /\ ncollects' = ncollects + 1
    /\ \/ \E p \in PanicPayloads :
             /\ TaskExit(p, "panic")
             /\ lastCollect' = [id |-> data.id, res |-> "panic",
                                retry |-> TRUE, afterCancel |-> ctxDone]
       \/ \E e \in CollectResults :
             /\ err' = e
             /\ lastCollect' = [id |-> data.id, res |-> e.id,
                                retry |-> TRUE, afterCancel |-> ctxDone]
             /\ IF RetryLoopCond(e)
                THEN /\ pc' = "retrying"
                     /\ retries' = retries + 1
                     /\ UNCHANGED data
                ELSE /\ pc' = "idle"
                     /\ retries' = 0
                     /\ data' = NoItem
             /\ UNCHANGED <<errVars, panicVal, exitVia, sinkClosed, nodeClosed>>
    /\ UNCHANGED libVars
    /\ UNCHANGED <<confVars, ctxDone, currentEof, resendOut, input,
                   produced, eofTaken, reports, deferred, cancelInRetry>>

\* the ctx.Done() case of the retry select leaving the select only (break)
RetryCancelBreak ==
    /\ pc = "retrying"
    /\ ctxDone
    /\ pc' = "idle"
    /\ exitVia' = "retry-cancel"
    /\ UNCHANGED libVars
    /\ UNCHANGED <<confVars, errVars, ctxDone, currentEof, resendOut, input,
                   produced, eofTaken, data, err, ncollects, lastCollect, retries,
                   reports, deferred, sinkClosed, nodeClosed, panicVal,
                   cancelInRetry>>

\* the retry select takes the ctx.Done() case: return nil
RetryCancel ==
    /\ pc = "retrying"
    /\ ctxDone
    /\ TaskExit(NoPanic, "retry-cancel")
    /\ UNCHANGED libVars
    /\ UNCHANGED <<confVars, ctxDone, currentEof, resendOut, input, produced,
                   eofTaken, ncollects, lastCollect, reports, deferred,
                   cancelInRetry>>

Next ==
    \/ Produce
    \/ Cancel
    \/ SupervisorRecv
    \/ ResendRecv
    \/ SetResendOutput
    \/ Exec
    \/ Connect
    \/ IdleCancel
    \/ Receive
    \/ Collect
    \/ RetryTick
    \/ RetryCancel

Spec == Init /\ [][Next]_vars

(***************************************************************************)
(* DrainError on its own: any goroutine of the rule may call it with any   *)
(* error value, nil included, while the supervisor receives.               *)
(***************************************************************************)
DrainInputs == {NilErr, OtherErr1, OtherErr2}

InitDrain ==
    /\ Init
    /\ resendInterval = 0
    /\ sendError = FALSE
    /\ eoflimit = 1

DrainCall ==
    /\ Len(drainCalls) < MaxDrainCalls
    /\ \E e \in DrainInputs : Drain(e)
    /\ UNCHANGED <<libVars, sinkVars>>

Supervise ==
    /\ ~errCh.recv
    /\ Len(errCh.out) < MaxReceived
    /\ errCh' = ChanRecv(errCh)
    /\ UNCHANGED libVars
    /\ UNCHANGED <<sinkVars, drainCalls, drainLog>>

NextDrain ==
    \/ DrainCall
    \/ Supervise

SpecDrain == InitDrain /\ [][NextDrain]_vars

(***************************************************************************)
(* SafeRun on its own: goroutines run units that return or panic.          *)
(***************************************************************************)
\* what a unit may return
SafeRunReturns == {NilErr, IOErr, OtherErr1}

\* what a unit may panic with
SafeRunPanics ==
    PanicPayloads \cup
    { [type |-> "string", str |-> "", err |-> NilErr, num |-> 0],
      [type |-> "error", str |-> "", err |-> OtherErr1, num |-> 0],
      [type |-> "other", str |-> "", err |-> NilErr, num |-> 0] }

InitSafeRun == InitDrain /\ errCh = MakeChan(0)

\* err = fn(); return err
UnitReturns ==
    /\ Len(safeRuns) < MaxSafeRunCalls
    /\ \E e \in SafeRunReturns :
          safeRuns' = Append(safeRuns, [ret |-> e, panic |-> NoPanic,
                                        res |-> SafeRun(e, NoPanic)])
    /\ UNCHANGED <<fnVars, sinkVars, errVars>>

\* fn() panics: the deferred function of SafeRun runs
UnitPanics ==
    /\ Len(safeRuns) < MaxSafeRunCalls
    /\ \E p \in SafeRunPanics :
          safeRuns' = Append(safeRuns, [ret |-> NilErr, panic |-> p,
                                        res |-> SafeRun(NilErr, p)])
    /\ UNCHANGED <<fnVars, sinkVars, errVars>>

NextSafeRun ==
    \/ UnitReturns
    \/ UnitPanics

SpecSafeRun == InitSafeRun /\ [][NextSafeRun]_vars

(***************************************************************************)
(* package function: the analytic functions. A call gets the function      *)
(* context's state store st and its argument list args, whose last two     *)
(* elements are the validity flag and the partition key. It ends with      *)
(* [res, emit, panicked, state]: the pair it returns, whether it panicked  *)
(* instead, and the state store it leaves.                                 *)
(***************************************************************************)
Keys == {"k", "k1"}
TrackedValues == {Nil, IntVal(1), IntVal(2)}
FlagValues == {BoolVal(TRUE), BoolVal(FALSE), StrVal("true")}
KeyValues == {Nil} \cup { StrVal(k) : k \in Keys }

\* args[i] of the Go slice
At(args, i) == args[i + 1]

\* x.(bool) with the comma-ok form, and the bool it yields
IsBool(v) == v.t = "bool"
AsBool(v) == v.n = 1

\* ctx.GetState(key): the value stored under key, nil when there is none
GetState(st, key) == IF key \in DOMAIN st THEN st[key] ELSE Nil

\* ctx.PutState(key, v)
PutState(st, key, v) ==
    [x \in DOMAIN st \cup {key} |-> IF x = key THEN v ELSE st[x]]

\* reflect.DeepEqual on interface values: same dynamic type and same content
DeepEqual(a, b) == a = b

\* strconv.Itoa
Itoa(i) == ToString(i)

\* cast.ToInt(v, cast.STRICT): only an integer converts
ToInt(v) == [ok |-> v.t = "int", val |-> v.n]

Return(v, e, st) == [res |-> v, emit |-> e, panicked |-> FALSE, state |-> st]
Fail(msg, st) == Return(ErrVal(msg), FALSE, st)
\* a failed type assertion x.(T), or a call through a nil pointer
Panics(st) == [res |-> Nil, emit |-> FALSE, panicked |-> TRUE, state |-> st]

\* a change test that takes every value as changed
changedAlways(v, lv) == TRUE

\* !reflect.DeepEqual(v, lv): v differs from the value stored last
changed(v, lv) == ~DeepEqual(v, lv)

\* changed_col(ignoreNull, value; validity, key)
changed_col(st, args) ==
    LET n == Len(args)
        key == At(args, n - 1)
        lv == GetState(st, key.s)
    IN  IF ~IsBool(At(args, 0)) THEN Fail("first arg is not a bool", st)
        ELSE IF AsBool(At(args, 0)) /\ At(args, 1) = Nil THEN Return(Nil, TRUE, st)
        ELSE IF ~IsBool(At(args, n - 2)) THEN Fail("when arg is not a bool", st)
        ELSE IF ~AsBool(At(args, n - 2)) THEN Return(Nil, TRUE, st)
        ELSE IF key.t # "string" THEN Panics(st)
        ELSE IF changed(At(args, 1), lv)
             THEN Return(At(args, 1), TRUE, PutState(st, key.s, At(args, 1)))
             ELSE Return(Nil, TRUE, st)

\* a slot name without the index
slotNameShared(key, i) == key

\* k := key + strconv.Itoa(i): the state slot of the value at index i
slotName(key, i) == key \o Itoa(i)

\* an argument test asking for two tracked values besides the flag
tooFewArgsTwoTracked(l) == l <= 2

\* l <= 1, l counting the flag and the tracked values
tooFewArgs(l) == l <= 1

\* the loop of had_changed from index i on: [state, result]
RECURSIVE had_changedLoop(_, _, _, _, _, _)
had_changedLoop(st, args, key, ignoreNull, i, result) ==
    IF ~(i < Len(args) - 2) THEN [state |-> st, result |-> result]
    ELSE LET v == At(args, i)
             k == slotName(key, i)
         IN  IF ignoreNull /\ v = Nil
             THEN had_changedLoop(st, args, key, ignoreNull, i + 1, result)
             ELSE IF changed(v, GetState(st, k))
             THEN had_changedLoop(PutState(st, k, v), args, key, ignoreNull, i + 1, TRUE)
             ELSE had_changedLoop(st, args, key, ignoreNull, i + 1, result)

\* had_changed(ignoreNull, value1..valueN; validity, key)
had_changed(st, args) ==
    LET n == Len(args)
        l == n - 2
        key == At(args, n - 1)
    IN  IF tooFewArgs(l) THEN Fail("expect more than one arg", st)
        ELSE IF ~IsBool(At(args, n - 2)) THEN Fail("when arg is not a bool", st)
        ELSE IF ~AsBool(At(args, n - 2)) THEN Return(BoolVal(FALSE), TRUE, st)
        ELSE IF ~IsBool(At(args, 0)) THEN Fail("first arg is not a bool", st)
        ELSE IF key.t # "string" THEN Panics(st)
        ELSE LET r == had_changedLoop(st, args, key.s, AsBool(At(args, 0)), 1, FALSE)
             IN  Return(BoolVal(r.result), TRUE, r.state)

\* bind-time validation of had_changed on its nargs written arguments;
\* firstKind is the kind of the first one
had_changedVal(nargs, firstKind) ==
    IF tooFewArgs(nargs) THEN "expect more than one arg"
    ELSE IF firstKind \in {"numeric", "time", "string"} THEN "Expect bool type"
    ELSE "ok"

\* the ringqueue: capacity n, slots q with the oldest first
newRingqueue(size) == [t |-> "ringqueue", n |-> size, s |-> "", q |-> <<>>]
rqFill(rq, v) == [rq EXCEPT !.q = [i \in 1..rq.n |-> v]]
rqPeek(rq) == IF rq.q = <<>> THEN Nil ELSE Head(rq.q)
rqFetch(rq) ==
    [val |-> rqPeek(rq), rq |-> IF rq.q = <<>> THEN rq ELSE [rq EXCEPT !.q = Tail(@)]]
rqAppend(rq, v) ==
    IF Len(rq.q) < rq.n THEN [rq EXCEPT !.q = Append(@, v)]
    ELSE IF rq.q = <<>> THEN rq
    ELSE [rq EXCEPT !.q = Append(Tail(@), v)]

\* a size that is always the default 1
lagSizeDefault(args) == [ok |-> TRUE, val |-> 1]

\* size := 1, or the second argument converted to int
lagSize(args) ==
    IF Len(args) - 2 >= 2 THEN ToInt(At(args, 1)) ELSE [ok |-> TRUE, val |-> 1]

\* an advance test that leaves the validity flag out
lagAdvancesAnyValidity(validData, ignoreNull, v) == ~ignoreNull \/ v # Nil

\* the buffer advances: validData and (!ignoreNull || args[0] != nil)
lagAdvances(validData, ignoreNull, v) == validData /\ (~ignoreNull \/ v # Nil)

\* lag(value, [size], [default], [ignoreNull]; validity, key)
lag(st, args) ==
    LET n == Len(args)
        l == n - 2
        key == At(args, n - 1)
        v == GetState(st, key.s)
        size == lagSize(args)
        dftVal == IF l >= 3 THEN At(args, 2) ELSE Nil
        ignoreNull == IF l >= 4 THEN AsBool(At(args, 3)) ELSE TRUE
        created == v = Nil
        rq == IF created THEN rqFill(newRingqueue(size.val), dftVal) ELSE v
        st1 == IF created THEN PutState(st, key.s, rq) ELSE st
    IN  IF l < 1 \/ l > 4 THEN Fail("expect from 1 to 4 args", st)
        ELSE IF key.t # "string" THEN Panics(st)
        ELSE IF ~IsBool(At(args, n - 2)) THEN Fail("when arg is not a bool", st)
        ELSE IF ~size.ok THEN Fail("error converting second arg to int", st)
        ELSE IF l >= 4 /\ ~IsBool(At(args, 3)) THEN Fail("The fourth arg is not a bool", st)
        ELSE IF rq.t # "ringqueue" THEN Panics(st1)
        ELSE IF lagAdvances(AsBool(At(args, n - 2)), ignoreNull, At(args, 0))
             THEN Return(rqFetch(rq).val, TRUE,
                         PutState(st1, key.s, rqAppend(rqFetch(rq).rq, At(args, 0))))
             ELSE Return(rqPeek(rq), TRUE, st1)

\* a store test that lets a null value through
latestStoresNull(validData, v) == validData

\* validData && args[0] != nil: the value is stored
latestStores(validData, v) == validData /\ v # Nil

\* latest(value, [default]; validity, key)
latest(st, args) ==
    LET n == Len(args)
        l == n - 2
        key == At(args, n - 1)
        v == GetState(st, key.s)
    IN  IF l # 1 /\ l # 2 THEN Fail("expect one or two args", st)
        ELSE IF key.t # "string" THEN Panics(st)
        ELSE IF ~IsBool(At(args, n - 2)) THEN Fail("when arg is not a bool", st)
        ELSE IF latestStores(AsBool(At(args, n - 2)), At(args, 0))
             THEN Return(At(args, 0), TRUE, PutState(st, key.s, At(args, 0)))
        ELSE IF v = Nil
             THEN IF l = 2 THEN Return(At(args, 1), TRUE, st) ELSE Return(Nil, TRUE, st)
             ELSE Return(v, TRUE, st)

(***************************************************************************)
(* The callers of the analytic functions: an upstream node calls one       *)
(* function, row after row, with the state store the calls before left.    *)
(***************************************************************************)
MaxTracked == 2      \* tracked values of a had_changed call
MaxLagSize == 2      \* largest size argument of lag

SizeValues == { IntVal(i) : i \in 1..MaxLagSize } \cup {StrVal("2")}
DefaultValues == {IntVal(0)}
ArgKinds == {"bool", "numeric", "time", "string", "fieldref"}

\* sequences of 0..n tracked values
RECURSIVE TrackedSeqs(_)
TrackedSeqs(n) ==
    IF n = 0 THEN {<<>>}
    ELSE LET shorter == TrackedSeqs(n - 1)
         IN  shorter \cup { Append(q, v) : q \in { x \in shorter : Len(x) = n - 1 },
                                            v \in TrackedValues }

ChangedColArgs ==
    { <<f, v, w, k>> : f \in FlagValues, v \in TrackedValues,
                       w \in FlagValues, k \in KeyValues }

\* had_changed is called on one key; a key that is no string comes with its
\* shortest argument lists
HadChangedArgs ==
    { <<f>> \o q \o <<w, StrVal("k")>> : f \in FlagValues, q \in TrackedSeqs(MaxTracked),
                                          w \in FlagValues }
    \cup { <<f, v, w, Nil>> : f \in FlagValues, v \in TrackedValues, w \in FlagValues }

\* the arguments of lag before the validity flag: none up to five of them
LagParams ==
    {<<>>}
    \cup { <<v>> : v \in TrackedValues }
    \cup { <<v, z>> : v \in TrackedValues, z \in SizeValues }
    \cup { <<v, z, d>> : v \in TrackedValues, z \in SizeValues, d \in DefaultValues }
    \cup { <<v, z, d, f>> : v \in TrackedValues, z \in SizeValues,
                            d \in DefaultValues, f \in FlagValues }
    \cup { <<v, IntVal(1), Nil, BoolVal(TRUE), Nil>> : v \in TrackedValues }

\* lag is called on one key; a key that is no string comes with its shortest
\* argument lists
LagArgs ==
    { q \o <<w, StrVal("k")>> : q \in LagParams, w \in FlagValues }
    \cup { <<v, w, Nil>> : v \in TrackedValues, w \in FlagValues }

LatestArgs ==
    { q \o <<w, k>> :
        q \in {<<>>} \cup { <<v>> : v \in TrackedValues }
                     \cup { <<v, d>> : v \in TrackedValues, d \in DefaultValues }
                     \cup { <<v, Nil, Nil>> : v \in TrackedValues },
        w \in FlagValues, k \in KeyValues }

InitFunctions == InitDrain /\ errCh = MakeChan(0)

\* one call has ended with r; a panic ends the calling rule
Called(fname, args, r) ==
    /\ state' = r.state
    /\ call' = [fn |-> fname, args |-> args, res |-> r.res, emit |-> r.emit,
                panicked |-> r.panicked, before |-> state]
    /\ ncalls' = ncalls + 1

ChangedColCall ==
    /\ ncalls < MaxCalls /\ ~call.panicked
    /\ \E args \in ChangedColArgs : Called("changed_col", args, changed_col(state, args))
    /\ UNCHANGED <<advanced, safeRuns, sinkVars, errVars>>

NextChangedCol == ChangedColCall

SpecChangedCol == InitFunctions /\ [][NextChangedCol]_vars

HadChangedCall ==
    /\ ncalls < MaxHadChangedCalls /\ ~call.panicked
    /\ \E args \in HadChangedArgs : Called("had_changed", args, had_changed(state, args))
    /\ UNCHANGED <<advanced, safeRuns, sinkVars, errVars>>

\* the planner validates the written arguments of a had_changed call
HadChangedVal ==
    /\ ncalls = 0
    /\ \E nargs \in 0..(MaxTracked + 1), kind \in ArgKinds :
          LET m == had_changedVal(nargs, kind)
          IN  call' = [NoCall EXCEPT !.fn = "had_changed.val",
                                     !.args = <<IntVal(nargs), StrVal(kind)>>,
                                     !.res = IF m = "ok" THEN Nil ELSE ErrVal(m)]
    /\ UNCHANGED <<state, ncalls, advanced, safeRuns, sinkVars, errVars>>

NextHadChanged ==
    \/ HadChangedVal
    \/ HadChangedCall

SpecHadChanged == InitFunctions /\ [][NextHadChanged]_vars

\* had_changed called on several partition keys, with one tracked value up to
\* MaxIndex of them: the tracked values before the last are all alike
MaxIndex == 11       \* tracked values of a had_changed call on several keys

PaddedArgs ==
    { <<f>> \o [i \in 1..n |-> IF i < n THEN v ELSE last] \o <<BoolVal(TRUE), StrVal(k)>> :
        f \in {BoolVal(TRUE), BoolVal(FALSE)}, n \in 1..MaxIndex,
        v \in {Nil, IntVal(1)}, last \in TrackedValues, k \in Keys }

HadChangedKeyedCall ==
    /\ ncalls < MaxHadChangedCalls /\ ~call.panicked
    /\ \E args \in PaddedArgs : Called("had_changed", args, had_changed(state, args))
    /\ UNCHANGED <<advanced, safeRuns, sinkVars, errVars>>

NextHadChangedKeys == HadChangedKeyedCall

SpecHadChangedKeys == InitFunctions /\ [][NextHadChangedKeys]_vars

\* lag's arguments as written: the size, the default and the ignoreNull flag,
\* with the defaults of the ones left out
DeclaredSize(args) == IF Len(args) - 2 >= 2 THEN At(args, 1).n ELSE 1
DeclaredDefault(args) == IF Len(args) - 2 >= 3 THEN At(args, 2) ELSE Nil
DeclaredIgnoreNull(args) == IF Len(args) - 2 >= 4 THEN At(args, 3) = BoolVal(TRUE) ELSE TRUE

\* an advancing call: validity true, and a non-null value or ignoreNull false
Advancing(args) ==
    /\ At(args, Len(args) - 2) = BoolVal(TRUE)
    /\ At(args, 0) # Nil \/ ~DeclaredIgnoreNull(args)

\* the history of a key after a lag call that returned a value: the size and
\* default of the call that created the buffer, and the advancing values
Advanced(hist, args) ==
    LET key == At(args, Len(args) - 1).s
        h0 == IF key \in DOMAIN hist THEN hist[key]
              ELSE [size |-> DeclaredSize(args), dft |-> DeclaredDefault(args),
                    vals |-> <<>>]
        h1 == IF Advancing(args) THEN [h0 EXCEPT !.vals = Append(@, At(args, 0))]
              ELSE h0
    IN  [x \in DOMAIN hist \cup {key} |-> IF x = key THEN h1 ELSE hist[x]]

LagCall ==
    /\ ncalls < MaxCalls /\ ~call.panicked
    /\ \E args \in LagArgs :
          LET r == lag(state, args)
          IN  /\ Called("lag", args, r)
              /\ advanced' = IF r.emit THEN Advanced(advanced, args) ELSE advanced
    /\ UNCHANGED <<safeRuns, sinkVars, errVars>>

NextLag == LagCall

SpecLag == InitFunctions /\ [][NextLag]_vars

LatestCall ==
    /\ ncalls < MaxCalls /\ ~call.panicked
    /\ \E args \in LatestArgs : Called("latest", args, latest(state, args))
    /\ UNCHANGED <<advanced, safeRuns, sinkVars, errVars>>

NextLatest == LatestCall

SpecLatest == InitFunctions /\ [][NextLatest]_vars

(***************************************************************************)
(* Derived notions used by the properties                                  *)
(***************************************************************************)
Range(q) == { q[i] : i \in DOMAIN q }

\* number of items the task has received from s.input
taken == produced - Len(input)

\* the values the supervisor has received or can still receive
Observable == Range(errCh.buf) \cup Range(errCh.out)

\* a step that calls doCollect
CollectStep == ncollects' = ncollects + 1

\* a step that calls doCollect again for the record collected last
ReCollectStep == CollectStep /\ lastCollect'.id = lastCollect.id

(***************************************************************************)
(* Properties                                                              *)
(***************************************************************************)

\* C1: however the task of Exec ends, s.sink.Close and then s.Close have each
\* been executed exactly once.
C1_CleanupExactlyOnce ==
    pc = "done" => sinkClosed = 1 /\ nodeClosed = 1

\* C2 (as claimed): collect is called again for a record only from the retry
\* loop, with resendInterval > 0, no resend output and an I/O-class latest
\* failure; each tick calls collect once; the retry loop ends exactly when a
\* collect succeeds, a collect returns a non-I/O error, or the ctx.Done() case
\* is taken; a record whose first failure is not I/O-class is dropped.
C2_RetryEndsOnResultOrCancel ==
    [][ /\ ReCollectStep =>
              /\ pc = "retrying" /\ resendInterval > 0 /\ ~resendOut.set
              /\ lastCollect.res = "io" /\ IsIOError(err)
        /\ ncollects' \in {ncollects, ncollects + 1}
        /\ pc = "retrying" /\ pc' # "retrying" =>
              \/ CollectStep /\ lastCollect'.res \in {"nil", "nonio"} /\ pc' = "idle"
              \/ ~CollectStep /\ ctxDone /\ exitVia' = "retry-cancel"
        /\ pc = "retrying" /\ CollectStep /\ lastCollect'.res = "io" => pc' = "retrying"
        /\ pc = "collecting" /\ CollectStep /\ lastCollect'.res = "nonio" => pc' = "idle"
      ]_vars

\* C2 (amended): as above, and the retry loop also ends when a collect panics,
\* which ends the whole task.
C2_RetryEndsOnResultPanicOrCancel ==
    [][ /\ ReCollectStep =>
              /\ pc = "retrying" /\ resendInterval > 0 /\ ~resendOut.set
              /\ lastCollect.res = "io" /\ IsIOError(err)
        /\ ncollects' \in {ncollects, ncollects + 1}
        /\ pc = "retrying" /\ pc' # "retrying" =>
              \/ CollectStep /\ lastCollect'.res \in {"nil", "nonio"} /\ pc' = "idle"
              \/ CollectStep /\ lastCollect'.res = "panic" /\ pc' = "done"
              \/ ~CollectStep /\ ctxDone /\ exitVia' = "retry-cancel"
        /\ pc = "retrying" /\ CollectStep /\ lastCollect'.res = "io" => pc' = "retrying"
        /\ pc = "collecting" /\ CollectStep /\ lastCollect'.res = "nonio" => pc' = "idle"
      ]_vars

\* a record was retried twice and the second retry succeeded
C2_Witness ==
    /\ pc = "idle" /\ lastCollect.retry /\ lastCollect.res = "nil" /\ ncollects >= 3

\* C3: collect attempts follow the arrival order of the records: every collect
\* call is for the record received last from s.input, and never for a record
\* that arrived before the one collected last.
C3_CollectInArrivalOrder ==
    [][ CollectStep => lastCollect'.id >= lastCollect.id /\ lastCollect'.id = taken' ]_vars

\* a record is being retried, a retry of it has already failed, and the next
\* record waits in the input channel
C3_Witness ==
    /\ pc = "retrying" /\ retries >= 1 /\ lastCollect.retry /\ input # <<>>
    /\ Head(input).id > data.id

\* C4 (as claimed): once cancellation has fired during the retry loop, no
\* collect call is made and no record is received from s.input any more.
C4_NothingAfterCancelFired ==
    [][ cancelInRetry => ncollects' = ncollects /\ taken' = taken ]_vars

\* C4 (amended): once the retry select has taken its ctx.Done() case, the
\* task has returned and its cleanup has run; from then on no collect call is
\* made and no record is received from s.input.
C4_NothingAfterCancelObserved ==
    [][ /\ pc = "retrying" /\ exitVia' = "retry-cancel" =>
              ctxDone /\ pc' = "done" /\ sinkClosed' = 1 /\ ~CollectStep /\ taken' = taken
        /\ exitVia = "retry-cancel" =>
              pc = "done" /\ pc' = "done" /\ ~CollectStep /\ taken' = taken
      ]_vars

\* cancellation fired during a retry, one more tick was collected after it,
\* and then the retry select took the ctx.Done() case
C4_Witness ==
    /\ cancelInRetry /\ exitVia = "retry-cancel" /\ pc = "done"
    /\ lastCollect.afterCancel /\ input # <<>>

\* C5 (as claimed): with a resend output, a failed collect never waits on the
\* resend channel and the loop goes on; when the channel cannot take the
\* record, the record is dropped and a buffer-full error is reported.
C5_FullResendIsReported ==
    [][ pc = "collecting" /\ resendOut.set =>
          /\ ResendSelect(resendOut, ctxDone) # {}
          /\ CollectStep /\ lastCollect'.res \in {"io", "nonio"} =>
                /\ pc' = "idle"
                /\ ~ChanCanSend(resendOut) =>
                      resendOut' = resendOut /\ "bufferfull" \in reports'
      ]_vars

\* C5 (amended): the same, but the buffer-full error is reported only while
\* the rule is not cancelled; with a cancelled rule and a full channel the
\* record is dropped without a report.
C5_FullResendIsReportedUnlessCancelled ==
    [][ pc = "collecting" /\ resendOut.set =>
          /\ ResendSelect(resendOut, ctxDone) # {}
          /\ CollectStep /\ lastCollect'.res \in {"io", "nonio"} =>
                /\ pc' = "idle"
                /\ ~ChanCanSend(resendOut) =>
                      /\ resendOut' = resendOut
                      /\ ("bufferfull" \in reports') = ~ctxDone
                /\ "bufferfull" \in reports' => ~ChanCanSend(resendOut)
      ]_vars

\* a record was dropped with a buffer-full report while the resend channel was full
C5_Witness ==
    /\ pc = "idle" /\ "bufferfull" \in reports
    /\ resendOut.set /\ Len(resendOut.buf) = resendOut.cap /\ resendOut.cap >= 1

\* C6 (as claimed): once the EOF markers counted reach eoflimit, the EOF error
\* is on the error channel or has been received by the supervisor.
C6_EofErrorObservable ==
    eofTaken >= eoflimit => EOFErr \in Observable

\* C6 (amended): once the EOF markers counted reach eoflimit, the EOF error
\* has been passed to DrainError exactly once; it was put on the channel if and
\* only if the channel could take it at that moment, and it is dropped
\* otherwise.
C6_EofErrorDrainedOnce ==
    /\ eofTaken >= eoflimit =>
          /\ Cardinality({ i \in DOMAIN drainCalls : drainCalls[i].err = EOFErr }) = 1
          /\ \A i \in DOMAIN drainCalls :
                drainCalls[i].err = EOFErr =>
                   /\ drainCalls[i].sent = drainCalls[i].room
                   /\ drainCalls[i].sent = (EOFErr \in Observable)
    /\ eofTaken < eoflimit =>
          \A i \in DOMAIN drainCalls : drainCalls[i].err # EOFErr

\* the EOF limit was reached while the Connect error was still on the channel:
\* the EOF error was dropped
C6_Witness ==
    /\ eofTaken >= eoflimit /\ errCh.cap >= 1 /\ errCh.buf = <<ConnectErr>>
    /\ \E i \in DOMAIN drainCalls : drainCalls[i].err = EOFErr /\ ~drainCalls[i].sent

\* C7: the supervisor receives, or can still receive, at most one value from
\* the error channel in a rule run.
C7_AtMostOneErrorObservable ==
    Len(errCh.buf) + Len(errCh.out) <= 1

\* C8: DrainError with a nil error logs nothing and leaves the channel as it
\* was: no nil is ever on the channel or received by the supervisor.
C8_NilNeverObservable ==
    /\ NilErr \notin Observable
    /\ \A i \in DOMAIN drainCalls : drainCalls[i].err = NilErr => ~drainCalls[i].sent

\* C9: DrainError never blocks: in every state of the error channel a call
\* with any error ends at once, after at most one send; the send is made
\* exactly when it can proceed immediately, and skipped otherwise.
C9_DrainErrorNeverBlocks ==
    /\ \A e \in DrainInputs : DrainError(e, errCh) # {}
    /\ \A i \in DOMAIN drainCalls : drainCalls[i].sent = drainCalls[i].room
    /\ Len(errCh.buf) + Len(errCh.out)
         = Cardinality({ i \in DOMAIN drainCalls : drainCalls[i].sent })
    /\ Len(errCh.buf) <= errCh.cap

\* a call was skipped on a full buffered channel, one on an unbuffered channel
\* is covered by the channel of capacity 0
C9_Witness ==
    /\ errCh.cap >= 1 /\ Len(errCh.buf) = errCh.cap /\ ~errCh.recv
    /\ \E i \in DOMAIN drainCalls : ~drainCalls[i].sent /\ ~drainCalls[i].room

\* C10: a panic in the task body never leaves the task goroutine: the task
\* ends, and the error SafeRun made of the panic is the last one passed to
\* DrainError.
C10_PanicIsDrained ==
    /\ pc # "crashed"
    /\ pc = "done" /\ panicVal # NoPanic =>
          /\ drainCalls # <<>>
          /\ drainCalls[Len(drainCalls)].err.id =
                (CASE panicVal.type = "string" -> "errors.New"
                   [] panicVal.type = "error" -> panicVal.err.id
                   [] OTHER -> "formatted")
          /\ drainCalls[Len(drainCalls)].err # NilErr
    /\ pc = "done" /\ panicVal = NoPanic =>
          \A i \in DOMAIN drainCalls : drainCalls[i].err \in {ConnectErr, EOFErr}

\* a collect panicked during a retry and the task ended
C10_Witness ==
    /\ pc = "done" /\ exitVia = "panic"
    /\ lastCollect.retry /\ lastCollect.res = "panic" /\ drainCalls # <<>>

\* C11: SafeRun returns the unit's own return value when the unit does not
\* panic, an error with the payload as its message for a string payload, the
\* same error value for an error payload, and an error holding the formatted
\* payload for any other payload; the panic never leaves SafeRun.
C11_SafeRunConvertsPanics ==
    \A i \in DOMAIN safeRuns :
        LET c == safeRuns[i] IN
        /\ ~c.res.escaped
        /\ c.panic = NoPanic => c.res.err = c.ret
        /\ c.panic.type = "string" => c.res.err.msg = c.panic.str
        /\ c.panic.type = "error" => c.res.err = c.panic.err
        /\ c.panic.type = "other" /\ c.panic.num = 42 => c.res.err.msg = "42"
        /\ c.panic.type = "other" /\ c.panic.num = 0 => c.res.err.msg = "0"

\* a unit returned an error, and units panicked with a string, with an error
\* and with a number
C11_Witness ==
    /\ Len(safeRuns) = MaxSafeRunCalls
    /\ \A ty \in {"string", "error", "other"} :
          \E i \in DOMAIN safeRuns : safeRuns[i].panic.type = ty

\* the arguments of the latest call that the function expects to be boolean:
\* the validity flag, and the ignoreNull flag where the function has one
ExpectedBools(c) ==
    LET n == Len(c.args) IN
    {At(c.args, n - 2)}
    \cup (IF c.fn \in {"changed_col", "had_changed"} THEN {At(c.args, 0)} ELSE {})
    \cup (IF c.fn = "lag" /\ n - 2 >= 4 THEN {At(c.args, 3)} ELSE {})

\* the latest call returned (error, false)
Rejected(c) == ~c.panicked /\ c.res.t = "error" /\ ~c.emit

\* C12 (as claimed): a call of changed_col, had_changed, lag or latest with
\* an argument that is expected to be boolean and is not returns
\* (error, false) and does not panic, whatever the other arguments are.
C12_NonBoolIsRejected ==
    call.fn \in {"changed_col", "had_changed", "lag", "latest"} =>
        ((\E b \in ExpectedBools(call) : ~IsBool(b)) => Rejected(call))

\* the key of the latest call
KeyOf(c) == At(c.args, Len(c.args) - 1)

\* the latest call left every key but its own as it was
OnlyOwnKey(c) ==
    \A k \in (DOMAIN state \cup DOMAIN c.before) \ {KeyOf(c).s} :
        GetState(state, k) = GetState(c.before, k)

\* a changed_col call that is evaluated: boolean flags, validity true, a
\* string key, and not a null value with ignoreNull set
ChangedColEvaluated(c) ==
    /\ c.fn = "changed_col"
    /\ At(c.args, 0) \in {BoolVal(TRUE), BoolVal(FALSE)}
    /\ At(c.args, 2) = BoolVal(TRUE)
    /\ KeyOf(c).t = "string"
    /\ ~(At(c.args, 0) = BoolVal(TRUE) /\ At(c.args, 1) = Nil)

\* C13: an evaluated changed_col call with value v returns v when v differs
\* from the value stored for the key and nil when it is equal, and the value
\* stored for the key is v after the call.
C13_ChangedColEmitsChanges ==
    ChangedColEvaluated(call) =>
        LET v == At(call.args, 1)
            key == KeyOf(call).s
        IN  /\ ~call.panicked /\ call.emit
            /\ call.res = IF v # GetState(call.before, key) THEN v ELSE Nil
            /\ GetState(state, key) = v
            /\ OnlyOwnKey(call)

\* the second of two calls with the same non-null value on one key: the first
\* stored the value, the second returned nil
C13_Witness ==
    /\ ncalls = 2
    /\ ChangedColEvaluated(call)
    /\ At(call.args, 1) # Nil
    /\ GetState(call.before, KeyOf(call).s) = At(call.args, 1)
    /\ call.res = Nil

\* the positions of the tracked values of a had_changed call
TrackedAt(c) == 1..(Len(c.args) - 3)

\* the state slot of the tracked value at position i: the key followed by
\* the decimal index
SlotAt(c, i) == KeyOf(c).s \o ToString(i)

\* a had_changed call with a boolean validity flag and at least one tracked value
HadChangedAccepted(c) ==
    /\ c.fn = "had_changed"
    /\ TrackedAt(c) # {}
    /\ IsBool(At(c.args, Len(c.args) - 2))

\* the tracked value at position i of the call changed: it is not skipped as
\* a null value and differs from the value recorded for the position
ChangedAt(c, i) ==
    /\ ~(At(c.args, 0) = BoolVal(TRUE) /\ At(c.args, i) = Nil)
    /\ At(c.args, i) # GetState(c.before, SlotAt(c, i))

\* C14: a had_changed call with validity true returns true exactly when a
\* tracked value that is not skipped as null differs from the value recorded
\* for its position, and it records every such value and nothing else; a call
\* with validity false returns false and leaves the state store as it was.
C14_HadChangedReportsAnyChange ==
    HadChangedAccepted(call) =>
        IF At(call.args, Len(call.args) - 2) = BoolVal(TRUE)
        THEN (IsBool(At(call.args, 0)) /\ KeyOf(call).t = "string") =>
                /\ ~call.panicked /\ call.emit
                /\ call.res = BoolVal(\E i \in TrackedAt(call) : ChangedAt(call, i))
                /\ \A i \in TrackedAt(call) :
                      GetState(state, SlotAt(call, i)) =
                          IF ChangedAt(call, i) THEN At(call.args, i)
                          ELSE GetState(call.before, SlotAt(call, i))
                /\ \A k \in (DOMAIN state \cup DOMAIN call.before)
                              \ { SlotAt(call, i) : i \in TrackedAt(call) } :
                      GetState(state, k) = GetState(call.before, k)
        ELSE /\ ~call.panicked /\ call.emit
             /\ call.res = BoolVal(FALSE)
             /\ state = call.before

\* the second of two calls with two tracked values: the first value is the one
\* recorded, the second differs from the one recorded, and the call returned true
C14_Witness ==
    /\ ncalls = 2
    /\ HadChangedAccepted(call)
    /\ call.args = <<BoolVal(TRUE), IntVal(1), IntVal(1), BoolVal(TRUE), StrVal("k")>>
    /\ GetState(call.before, "k1") = IntVal(1)
    /\ GetState(call.before, "k2") = IntVal(2)
    /\ call.res = BoolVal(TRUE)
    /\ GetState(state, "k2") = IntVal(1)

\* the latest step was the bind-time validation of nargs written arguments
ValidatedWith(c, nargs) == c.fn = "had_changed.val" /\ At(c.args, 0) = IntVal(nargs)

\* C15 (as claimed): a had_changed call, and a bind-time validation, with the
\* ignoreNull flag and only one tracked value is rejected with an error and
\* touches no state.
C15_OneTrackedValueRejected ==
    /\ (call.fn = "had_changed" /\ Len(call.args) - 3 = 1) =>
            (Rejected(call) /\ state = call.before)
    /\ ValidatedWith(call, 2) => call.res.t = "error"

\* C15 (amended): had_changed counts the ignoreNull flag among its at least 2
\* arguments. A call, and a bind-time validation, with the flag alone is
\* rejected with an error and touches no state; with the flag and one
\* tracked value neither is rejected for the number of arguments.
C15_FlagAloneRejected ==
    /\ (call.fn = "had_changed" /\ Len(call.args) - 3 = 0) =>
            (Rejected(call) /\ state = call.before)
    /\ \A n \in {0, 1} : ValidatedWith(call, n) => call.res.t = "error"
    /\ (call.fn = "had_changed" /\ Len(call.args) - 3 = 1
          /\ IsBool(At(call.args, 0)) /\ IsBool(At(call.args, 2))
          /\ KeyOf(call).t = "string") => (~call.panicked /\ call.emit)
    /\ (ValidatedWith(call, 2) /\ At(call.args, 1).s \in {"bool", "fieldref"}) =>
            call.res = Nil

\* a call with the flag alone was rejected after an earlier call had recorded
\* a value
C15_Witness ==
    /\ call.fn = "had_changed" /\ Len(call.args) - 3 = 0
    /\ call.before # NoState
    /\ Rejected(call)

\* a lag call that returned a value
LagReturned(c) == c.fn = "lag" /\ c.emit /\ ~c.panicked

\* what a key's history says its buffer holds as the oldest value: the default
\* while fewer than size values have advanced it, the value size steps back after
OldestBy(h) ==
    IF Len(h.vals) < h.size THEN h.dft ELSE h.vals[Len(h.vals) - h.size + 1]

\* C16: on a key whose buffer was created with size N and default d, the k-th
\* advancing lag call returns d when k <= N and the value of the (k-N)-th
\* advancing call when k > N.
C16_LagReturnsValueSizeStepsBack ==
    (LagReturned(call) /\ Advancing(call.args)) =>
        LET h == advanced[KeyOf(call).s]
            k == Len(h.vals)
        IN  call.res = IF k <= h.size THEN h.dft ELSE h.vals[k - h.size]

\* the third advancing call on a buffer of size 2 returned the value of the
\* first, which is neither the default nor the value of the second
C16_Witness ==
    /\ LagReturned(call) /\ Advancing(call.args)
    /\ LET h == advanced[KeyOf(call).s]
       IN  /\ h.size = 2 /\ Len(h.vals) = 3
           /\ h.vals[1] # h.dft /\ h.vals[1] # h.vals[2]
           /\ call.res = h.vals[1]

\* a lag call on a key that has its buffer already, and that does not advance
LagNotAdvancing(c) ==
    /\ LagReturned(c)
    /\ ~Advancing(c.args)
    /\ KeyOf(c).s \in DOMAIN c.before

\* C20: a lag call that does not advance, on a key that has its buffer, returns
\* the oldest value of the buffer (the value the next advancing call returns)
\* and leaves the buffer and the whole state store as they were.
C20_IdleLagKeepsBuffer ==
    LagNotAdvancing(call) =>
        /\ call.res = Head(call.before[KeyOf(call).s].q)
        /\ call.res = OldestBy(advanced[KeyOf(call).s])
        /\ state = call.before

\* a call with validity false and a non-null value, after the buffer had
\* advanced past its default
C20_Witness ==
    /\ LagNotAdvancing(call)
    /\ advanced[KeyOf(call).s].vals # <<>>
    /\ call.res # advanced[KeyOf(call).s].dft
    /\ At(call.args, Len(call.args) - 2) = BoolVal(FALSE)
    /\ At(call.args, 0) # Nil

\* a latest call that passes the argument checks: one or two arguments
\* before a boolean validity flag and a string key
LatestAccepted(c) ==
    /\ c.fn = "latest"
    /\ Len(c.args) - 2 \in {1, 2}
    /\ IsBool(At(c.args, Len(c.args) - 2))
    /\ KeyOf(c).t = "string"

\* C17: a latest call with validity true and a non-null value v stores v and
\* returns v; any other call returns the value stored last, or the default
\* argument (nil without one) when nothing is stored, and leaves the state
\* store as it was. A stored value is never null.
C17_LatestKeepsLastNonNull ==
    /\ \A k \in DOMAIN state : call.fn = "latest" => state[k] # Nil
    /\ LatestAccepted(call) =>
          LET v == At(call.args, 0)
              key == KeyOf(call).s
              dft == IF Len(call.args) - 2 = 2 THEN At(call.args, 1) ELSE Nil
          IN  /\ ~call.panicked /\ call.emit
              /\ IF At(call.args, Len(call.args) - 2) = BoolVal(TRUE) /\ v # Nil
                 THEN /\ call.res = v
                      /\ GetState(state, key) = v
                      /\ OnlyOwnKey(call)
                 ELSE /\ call.res = IF key \in DOMAIN call.before
                                    THEN call.before[key] ELSE dft
                      /\ state = call.before

\* a call with a null value and validity false returned the value stored by
\* an earlier call, not its default argument
C17_Witness ==
    /\ LatestAccepted(call)
    /\ At(call.args, 0) = Nil
    /\ At(call.args, Len(call.args) - 2) = BoolVal(FALSE)
    /\ Len(call.args) - 2 = 2
    /\ KeyOf(call).s \in DOMAIN call.before
    /\ call.res = call.before[KeyOf(call).s]
    /\ call.res # At(call.args, 1)

\* the first doCollect of a record fails and the failure is not retry-eligible:
\* no resend output, and resendInterval = 0 or an error that is not I/O-class
LocalFailureStep ==
    /\ pc = "collecting"
    /\ CollectStep
    /\ lastCollect'.res \in {"io", "nonio"}
    /\ ~resendOut.set
    /\ ~RetryEligible(resendInterval, err')

\* C18: a collect failure that is not retry-eligible is reported and the
\* record is dropped; the task does not exit, nothing is handed to DrainError,
\* the error channel stays as it was, and the task is back in its main select,
\* where it takes the next record of the input channel.
C18_LocalFailureKeepsNodeRunning ==
    /\ [][ LocalFailureStep =>
             /\ "collect" \in reports'
             /\ data' = NoItem
             /\ pc' = "idle"
             /\ UNCHANGED <<errCh, drainCalls, drainLog>>
             /\ UNCHANGED <<exitVia, panicVal, sinkClosed, nodeClosed, deferred>>
         ]_vars
    /\ [](pc = "idle" /\ input # <<>> => ENABLED Receive)

\* a second record is being collected after the first one failed with an
\* error that is not I/O-class, with a resend interval and no resend output
C18_Witness ==
    /\ pc = "collecting"
    /\ data.id > lastCollect.id
    /\ lastCollect.res = "nonio" /\ ~lastCollect.retry
    /\ resendInterval > 0 /\ ~resendOut.set
    /\ drainCalls = <<>>

\* the kinds of items ingest hands to collect
Collectable(d) == d.kind = "data" \/ (d.kind = "error" /\ sendError)

\* a step of the main select that receives an item and ingests it
ReceiveStep == pc = "idle" /\ Len(input') < Len(input) /\ panicVal' = panicVal

\* C19: collect is never called with a watermark, a batch-EOF or an EOF
\* marker, and with an error item only when s.sendError is set; every other
\* item received from the input channel is passed to collect as received.
C19_OnlyRecordsAreCollected ==
    /\ [](pc \in {"collecting", "retrying"} => Collectable(data))
    /\ [][ /\ CollectStep => (lastCollect'.id = data.id /\ Collectable(data))
           /\ ReceiveStep =>
                IF Collectable(Head(input))
                THEN pc' = "collecting" /\ data' = Head(input)
                ELSE pc' = "idle" /\ data' = NoItem /\ ncollects' = ncollects
         ]_vars

\* an error item is about to be collected after the first item was filtered out
C19_Witness ==
    /\ pc = "collecting"
    /\ data.kind = "error" /\ data.id = 2
    /\ ncollects = 0

\* the state slots of the (key, index) pairs of the partition key k
SlotsOfKey(k) == { k \o ToString(i) : i \in 1..MaxIndex }

\* C21 (as claimed): had_changed keeps the state of each (partition key,
\* index) pair apart: a call on one key leaves the slot of every pair of
\* another key as it was.
C21_SlotsIndependentPerKey ==
    call.fn = "had_changed" =>
        \A k \in Keys \ {KeyOf(call).s} :
            \A sl \in SlotsOfKey(k) : GetState(state, sl) = GetState(call.before, sl)

====
